---- MODULE Spec2Model ----
(***************************************************************************)
(* The wallet application: TransferView, DepositView and WalletBalanceView *)
(* of wallet/views.py running as concurrent request handlers against one   *)
(* transactional store holding the Wallet and Transaction tables of        *)
(* wallet/models.py, and the receipt task of wallet/tasks.py run by a      *)
(* worker.  Amounts are counted in cents (DecimalField with two decimal    *)
(* places); the amount of a request body may carry a third fractional      *)
(* digit.  Every action is one statement sent to the store by one handler, *)
(* together with the local computation that follows it.                    *)
(***************************************************************************)
EXTENDS Integers, Sequences, FiniteSets, TLC

\* Bounds of the model.
NUsers == 3
NProcs == 3
MaxAmount == 2
MaxDeposit == 1
InitBal == 2
MaxMills == 1
MaxInput == 2
MaxClock == 2

\* Program constants, in cents.
MinAmount == 1

\* Mutant: a new wallet starts with one cent.
DefaultBalanceCredit == MinAmount

DefaultBalance == 0

Users == 1..NUsers
Procs == 1..NProcs
UnknownUser == NUsers + 1

VARIABLES
    wallets,  \* Wallet table, committed: the user ids that have a row
    balance,  \* Wallet table, committed: balance of each user's row
    ledger,   \* Transaction table, committed: sequence of rows
    next_id,  \* primary-key sequence of the Transaction table
    lock,     \* row lock of each user's Wallet row: the handlers holding it
    jobs,     \* receipt jobs handed to the task queue: transaction ids
    req,      \* the request each handler serves
    pc,       \* position of each handler
    wmap,     \* wallet_map / wallet of each handler: balances read under lock
    pend,     \* uncommitted writes of each handler's atomic block
    txid,     \* transaction_record.id of each handler
    resp,     \* response each handler returned
    now,      \* the clock, in seconds
    failed,   \* receipt task: the transaction ids of the runs that raised
    eff,      \* history: what each handler's statements changed in committed state
    users,    \* User table: the ids of the users that exist
    refused   \* the users whose deletion raised ProtectedError

vars == <<wallets, balance, ledger, next_id, lock, jobs, req, pc, wmap, pend,
          txid, resp, now, failed, eff, users, refused>>

----------------------------------------------------------------------------
\* Requests.

\* The 'amount' of a request body: a decimal of amount cents and mills
\* thousandths (a third fractional digit when mills > 0), no amount at all,
\* or a text that is no number.
BodyAmounts(lo, hi) ==
    [body : {"decimal"}, amount : lo..hi, mills : 0..MaxMills]
    \cup [body : {"missing", "text"}, amount : {0}, mills : {0}]

TransferRequests ==
    {[op |-> "transfer", user |-> u, receiver_id |-> r, body |-> a.body,
      amount |-> a.amount, mills |-> a.mills] :
        u \in Users, r \in Users \cup {UnknownUser},
        a \in BodyAmounts(0 - MinAmount, MaxAmount)}

DepositRequests ==
    {[op |-> "deposit", user |-> u, receiver_id |-> 0, body |-> a.body,
      amount |-> a.amount, mills |-> a.mills] :
        u \in Users, a \in BodyAmounts(0 - MinAmount, MaxDeposit)}

BalanceRequests ==
    [op : {"balance"}, user : Users, receiver_id : {0}, body : {"missing"},
     amount : {0}, mills : {0}]

NoRequest == [op |-> "none", user |-> 0, receiver_id |-> 0, body |-> "missing",
              amount |-> 0, mills |-> 0]

Requests == TransferRequests \cup DepositRequests \cup BalanceRequests \cup {NoRequest}

\* GET /transactions/ by each user.
HistoryRequests ==
    [op : {"history"}, user : Users, receiver_id : {0}, body : {"missing"},
     amount : {0}, mills : {0}]

\* A request in whole cents that passes the handler's validation of its input.
WellFormed(r) ==
    \/ r.op \in {"balance", "none"}
    \/ r.op = "deposit" /\ r.body = "decimal" /\ r.mills = 0 /\ r.amount > 0
    \/ r.op = "transfer" /\ r.body = "decimal" /\ r.mills = 0
                         /\ r.amount >= MinAmount /\ r.receiver_id \in Users
                         /\ r.receiver_id # r.user

WellFormedRequests == {r \in Requests : WellFormed(r)}

\* A multiset of concurrent requests: handlers are interchangeable, so the
\* requests are dealt to them in one fixed order.
ReqKey(r) ==
    (CASE r.op = "none" -> 0
       [] r.op = "balance" -> 1
       [] r.op = "deposit" -> 2
       [] OTHER -> 3) * 1000 + r.user * 100 + r.receiver_id * 10 + r.amount
    + (CASE r.body = "decimal" -> r.mills
         [] r.op \in {"none", "balance"} -> 0
         [] r.body = "missing" -> MaxMills + 1
         [] OTHER -> MaxMills + 2) * 10000

NoResponse == [status |-> "none", balance |-> 0, transaction_id |-> 0,
               transactions |-> <<>>, count |-> 0]
NoPending == [ins |-> {}, upd |-> {}, bal |-> [u \in Users |-> 0], led |-> <<>>]
NoEffect == [bal |-> [u \in Users |-> 0], led |-> 0, job |-> 0, created |-> {}]
NoLocals == [u \in Users |-> 0]

\* receipt_path of a new Transaction row: the empty path.
NoReceipt == <<>>

\* The store before the requests: every user but the last has a wallet.
InitWallets == {u \in Users : u < NUsers}
InitBalance(u) == IF u \in InitWallets THEN InitBal ELSE 0

\* The store before the requests, and n concurrent requests drawn from R.
InitOf(R, n) ==
    /\ wallets = InitWallets
    /\ balance = [u \in Users |-> InitBalance(u)]
    /\ ledger = <<>>
    /\ next_id = 1
    /\ lock = [u \in Users |-> {}]
    /\ jobs = <<>>
    /\ \E f \in [1..n -> R] :
          req = [p \in Procs |-> IF p <= n THEN f[p] ELSE NoRequest]
    /\ \A p \in Procs : p < NProcs => ReqKey(req[p]) >= ReqKey(req[p + 1])
    /\ pc = [p \in Procs |-> IF req[p].op = "none" THEN "done" ELSE "start"]
    /\ wmap = [p \in Procs |-> NoLocals]
    /\ pend = [p \in Procs |-> NoPending]
    /\ txid = [p \in Procs |-> 0]
    /\ resp = [p \in Procs |-> NoResponse]
    /\ now = 0
    /\ failed = {}
    /\ eff = [p \in Procs |-> NoEffect]
    /\ users = Users
    /\ refused = {}

Init == InitOf(WellFormedRequests, NProcs)

----------------------------------------------------------------------------
\* Helpers.

\* History of handler p: the change its step made to the committed tables
\* and to the task queue.
Account(p) ==
    eff' = [eff EXCEPT ![p] =
              [bal |-> [u \in Users |-> @.bal[u] + balance'[u] - balance[u]],
               led |-> @.led + Len(ledger') - Len(ledger),
               job |-> @.job + Len(jobs') - Len(jobs),
               created |-> @.created \cup (wallets' \ wallets)]]

Goto(p, label) == pc' = [pc EXCEPT ![p] = label]

\* Return a response: the handler's locals go out of scope.
Respond(p, status, bal, tx) ==
    /\ resp' = [resp EXCEPT ![p] =
                  [status |-> status, balance |-> bal, transaction_id |-> tx,
                   transactions |-> <<>>, count |-> 0]]
    /\ pc' = [pc EXCEPT ![p] = "done"]
    /\ wmap' = [wmap EXCEPT ![p] = NoLocals]
    /\ txid' = [txid EXCEPT ![p] = 0]

Reject(p, status) == Respond(p, status, 0, 0)

\* Mutant: the locking query does not wait for the row (no select_for_update).
CanLockNoWait(p, u) == TRUE

\* Mutant: the locking query locks the whole Wallet table.
CanLockTable(p, u) == \A v \in Users : lock[v] \subseteq {p}

\* select_for_update(nowait=False): the statement waits while another
\* transaction holds the row.
CanLock(p, u) == lock[u] \subseteq {p}

\* Mutant: the row locks outlive the transaction.
ReleaseNothing(p) == lock

\* The end of a transaction releases every row lock handler p holds.
Release(p) == [u \in Users |-> lock[u] \ {p}]

\* The committed Wallet table after the writes w of a committing transaction.
ApplyBalance(w) == [u \in Users |-> IF u \in w.ins \cup w.upd THEN w.bal[u] ELSE balance[u]]

\* Mutant: the sender's row is locked first, whatever its id.
LockOrderSenderFirst(s, r) == <<s, r>>

\* order_by('user_id') of the locking query over the two wallets.
LockOrder(s, r) == IF s <= r THEN <<s, r>> ELSE <<r, s>>

\* Mutant: the Wallet table has no unique index on user_id.
CanInsertNoWait(p, u) == TRUE

\* INSERT of a Wallet row for u may proceed: it waits for an uncommitted
\* insert of the same key (unique user_id).
CanInsert(p, u) == u \in wallets \/ lock[u] \subseteq {p}

----------------------------------------------------------------------------
\* TransferView.post

\* Decimal(str(amount)) of a body amount, in thousandths.
Thousandths(r) == 10 * r.amount + r.mills

\* Mutant: the serializer accepts any number of fractional digits.
SerializerValidAnyScale(r) == r.body = "decimal" /\ r.amount >= MinAmount

\* TransferSerializer: amount is required, a decimal of at most two
\* fractional digits, >= 0.01.
SerializerValid(r) == r.body = "decimal" /\ r.mills = 0 /\ r.amount >= MinAmount

\* Mutant: the self-transfer check is missing.
SelfTransferNever(r) == FALSE

\* receiver_id == sender.id
SelfTransfer(r) == r.receiver_id = r.user

\* Mutant: the receiver lookup finds a user under every id.
UserExistsAlways(id) == TRUE

\* User.objects.get(id=receiver_id) finds a user.
UserExists(id) == id \in users

\* Mutant: the self-transfer check and the receiver lookup come before the
\* validation of the amount.
TransferValidateAmountLast(p) ==
    /\ pc[p] = "start"
    /\ req[p].op = "transfer"
    /\ IF SelfTransfer(req[p]) THEN Reject(p, "self")
       ELSE IF ~UserExists(req[p].receiver_id) THEN Reject(p, "notfound")
       ELSE IF ~SerializerValid(req[p]) THEN Reject(p, "invalid")
       ELSE Goto(p, "goc_receiver") /\ UNCHANGED <<resp, wmap, txid>>
    /\ UNCHANGED <<wallets, balance, ledger, next_id, lock, jobs, req, now, failed, users, refused, pend>>
    /\ Account(p)

\* Mutant: the sender's wallet is created before the request is validated.
TransferValidateAfterCreate(p) ==
    /\ pc[p] = "start"
    /\ req[p].op = "transfer"
    /\ IF ~SerializerValid(req[p]) THEN Reject(p, "invalid")
       ELSE IF SelfTransfer(req[p]) THEN Reject(p, "self")
       ELSE IF ~UserExists(req[p].receiver_id) THEN Reject(p, "notfound")
       ELSE Goto(p, "goc_receiver") /\ UNCHANGED <<resp, wmap, txid>>
    /\ wallets' = wallets \cup {req[p].user}
    /\ UNCHANGED <<balance, ledger, next_id, lock, jobs, req, now, failed, users, refused, pend>>
    /\ Account(p)

\* Validation of the request, the self-transfer check and the receiver lookup.
TransferValidate(p) ==
    /\ pc[p] = "start"
    /\ req[p].op = "transfer"
    /\ IF ~SerializerValid(req[p]) THEN Reject(p, "invalid")
       ELSE IF SelfTransfer(req[p]) THEN Reject(p, "self")
       ELSE IF ~UserExists(req[p].receiver_id) THEN Reject(p, "notfound")
       ELSE Goto(p, "goc_receiver") /\ UNCHANGED <<resp, wmap, txid>>
    /\ UNCHANGED <<wallets, balance, ledger, next_id, lock, jobs, req, now, failed, users, refused, pend>>
    /\ Account(p)

\* Wallet.objects.get_or_create(user=u) outside any atomic block: the lookup.
WalletGet(p, u, found, missing) ==
    /\ Goto(p, IF u \in wallets THEN found ELSE missing)
    /\ UNCHANGED <<wallets, balance, ledger, next_id, lock, jobs, req, now, failed, users, refused, wmap, pend,
                   txid, resp>>
    /\ Account(p)

\* The insert of get_or_create, committed at once (autocommit).  When the row
\* has appeared meanwhile the insert raises IntegrityError and get_or_create
\* returns the existing row.
WalletCreate(p, u, next) ==
    /\ CanInsert(p, u)
    /\ wallets' = wallets \cup {u}
    /\ balance' = IF u \in wallets THEN balance
                  ELSE [balance EXCEPT ![u] = DefaultBalance]
    /\ Goto(p, next)
    /\ UNCHANGED <<ledger, next_id, lock, jobs, req, now, failed, users, refused, wmap, pend, txid, resp>>
    /\ Account(p)

GetReceiverWallet(p) ==
    /\ pc[p] = "goc_receiver"
    /\ WalletGet(p, req[p].receiver_id, "goc_sender", "ins_receiver")

CreateReceiverWallet(p) ==
    /\ pc[p] = "ins_receiver"
    /\ WalletCreate(p, req[p].receiver_id, "goc_sender")

GetSenderWallet(p) ==
    /\ pc[p] = "goc_sender"
    /\ WalletGet(p, req[p].user, "lock1", "ins_sender")

CreateSenderWallet(p) ==
    /\ pc[p] = "ins_sender"
    /\ WalletCreate(p, req[p].user, "lock1")

\* Mutant: select_for_update(nowait=True): a row that is locked makes the
\* query raise, the block is rolled back and the request fails.
LockWalletNoWait(p, u, next) ==
    /\ IF CanLock(p, u)
       THEN /\ lock' = [lock EXCEPT ![u] = @ \cup {p}]
            /\ wmap' = [wmap EXCEPT ![p][u] = balance[u]]
            /\ Goto(p, next)
            /\ UNCHANGED <<txid, resp>>
       ELSE /\ lock' = Release(p)
            /\ Reject(p, "error")
    /\ UNCHANGED <<wallets, balance, ledger, next_id, jobs, req, now, failed, users, refused, pend>>
    /\ Account(p)

\* _execute_transfer: the locking query takes the row locks one row at a
\* time in the order of the result, and reads each row as it locks it.
LockWallet(p, u, next) ==
    /\ CanLock(p, u)
    /\ lock' = [lock EXCEPT ![u] = @ \cup {p}]
    /\ wmap' = [wmap EXCEPT ![p][u] = balance[u]]
    /\ Goto(p, next)
    /\ UNCHANGED <<wallets, balance, ledger, next_id, jobs, req, now, failed, users, refused, pend, txid, resp>>
    /\ Account(p)

LockFirst(p) ==
    /\ pc[p] = "lock1"
    /\ LockWallet(p, LockOrder(req[p].user, req[p].receiver_id)[1], "lock2")

LockSecond(p) ==
    /\ pc[p] = "lock2"
    /\ LockWallet(p, LockOrder(req[p].user, req[p].receiver_id)[2], "check")

\* Mutant: the funds check is missing.
SufficientAlways(b, a) == TRUE

\* Mutant: the funds check wants more than the amount.
SufficientStrict(b, a) == b > a

\* The funds check on the balance read under the lock.
Sufficient(b, a) == b >= a

\* Mutant: the audit row records the parties the wrong way round.
NewTransactionSwapped(p) ==
    [id |-> next_id, sender |-> req[p].receiver_id, receiver |-> req[p].user,
     amount |-> req[p].amount, timestamp |-> now, receipt_path |-> NoReceipt]

\* The Transaction row created by the transfer: timestamp is auto_now_add.
NewTransaction(p) ==
    [id |-> next_id, sender |-> req[p].user, receiver |-> req[p].receiver_id,
     amount |-> req[p].amount, timestamp |-> now, receipt_path |-> NoReceipt]

\* Mutant: the credit is dropped.
CreditNothing(b, a) == b

\* The balances the transfer saves.
Debit(b, a) == b - a
Credit(b, a) == b + a

\* The writes of the atomic block: the two saves and the Transaction insert.
TransferWrites(p) ==
    LET s == req[p].user
        r == req[p].receiver_id
        a == req[p].amount
    IN [ins |-> {},
        upd |-> {s, r},
        bal |-> [u \in Users |-> IF u = s THEN Debit(wmap[p][s], a)
                                 ELSE IF u = r THEN Credit(wmap[p][r], a)
                                 ELSE 0],
        led |-> <<NewTransaction(p)>>]

\* The two saves and the Transaction insert, inside the atomic block.
TransferSave(p) ==
    /\ wmap' = [wmap EXCEPT ![p] = [u \in Users |->
                   IF u \in TransferWrites(p).upd
                   THEN TransferWrites(p).bal[u] ELSE @[u]]]
    /\ pend' = [pend EXCEPT ![p] = TransferWrites(p)]
    /\ txid' = [txid EXCEPT ![p] = next_id]
    /\ next_id' = next_id + 1
    /\ Goto(p, "commit")
    /\ UNCHANGED <<lock, resp>>

\* ValueError leaves the atomic block: rollback, locks released, 400.
TransferFail(p) ==
    /\ lock' = Release(p)
    /\ pend' = [pend EXCEPT ![p] = NoPending]
    /\ Reject(p, "insufficient")
    /\ UNCHANGED next_id

\* Mutant: the balances are saved before the funds check and the failure
\* does not undo them.
TransferMutateCheckLast(p) ==
    /\ pc[p] = "check"
    /\ IF ~Sufficient(wmap[p][req[p].user], req[p].amount)
       THEN /\ TransferFail(p)
            /\ balance' = ApplyBalance(TransferWrites(p))
       ELSE /\ TransferSave(p)
            /\ UNCHANGED balance
    /\ UNCHANGED <<wallets, ledger, jobs, req, now, failed, users, refused>>
    /\ Account(p)

\* Mutant: the receipt job is submitted inside the atomic block, with the
\* insert of the Transaction row.
TransferMutateSubmits(p) ==
    /\ pc[p] = "check"
    /\ IF ~Sufficient(wmap[p][req[p].user], req[p].amount)
       THEN TransferFail(p) /\ UNCHANGED jobs
       ELSE TransferSave(p) /\ jobs' = Append(jobs, next_id)
    /\ UNCHANGED <<wallets, balance, ledger, req, now, failed, users, refused>>
    /\ Account(p)

\* Mutant: a transfer whose sender, receiver and amount are those of a ledger
\* entry is taken for a repetition and refused.
TransferMutateOnce(p) ==
    /\ pc[p] = "check"
    /\ IF \/ ~Sufficient(wmap[p][req[p].user], req[p].amount)
          \/ \E i \in 1..Len(ledger) : /\ ledger[i].sender = req[p].user
                                       /\ ledger[i].receiver = req[p].receiver_id
                                       /\ ledger[i].amount = req[p].amount
       THEN TransferFail(p)
       ELSE TransferSave(p)
    /\ UNCHANGED <<wallets, balance, ledger, jobs, req, now, failed, users, refused>>
    /\ Account(p)

\* Funds check on the balance read under the lock, then the writes.
TransferMutate(p) ==
    /\ pc[p] = "check"
    /\ IF ~Sufficient(wmap[p][req[p].user], req[p].amount)
       THEN TransferFail(p)
       ELSE TransferSave(p)
    /\ UNCHANGED <<wallets, balance, ledger, jobs, req, now, failed, users, refused>>
    /\ Account(p)

\* Leaving an atomic block normally: the writes become visible together and
\* the locks are released.
Commit(p) ==
    /\ wallets' = wallets \cup pend[p].ins
    /\ balance' = ApplyBalance(pend[p])
    /\ ledger' = ledger \o pend[p].led
    /\ lock' = Release(p)
    /\ pend' = [pend EXCEPT ![p] = NoPending]

TransferCommit(p) ==
    /\ pc[p] = "commit"
    /\ Commit(p)
    /\ Goto(p, "delay")
    /\ UNCHANGED <<next_id, jobs, req, now, failed, users, refused, wmap, txid, resp>>
    /\ Account(p)

\* generate_transaction_receipt.delay, the re-read of the sender's wallet
\* and the 200 response.
TransferRespond(p) ==
    /\ pc[p] = "delay"
    /\ jobs' = Append(jobs, txid[p])
    /\ Respond(p, "ok", balance[req[p].user], txid[p])
    /\ UNCHANGED <<wallets, balance, ledger, next_id, lock, req, now, failed, users, refused, pend>>
    /\ Account(p)

Transfer(p) ==
    \/ TransferValidate(p)
    \/ GetReceiverWallet(p)
    \/ CreateReceiverWallet(p)
    \/ GetSenderWallet(p)
    \/ CreateSenderWallet(p)
    \/ LockFirst(p)
    \/ LockSecond(p)
    \/ TransferMutate(p)
    \/ TransferCommit(p)
    \/ TransferRespond(p)

----------------------------------------------------------------------------
\* DepositView.post

\* Mutant: a deposit of zero is accepted.
NonNegative(m) == m >= 0

\* The check 'amount <= 0' does not reject the amount.
Positive(m) == m > 0

\* The amount is there, Decimal parses it, and it is positive.
DepositValid(r) == r.body = "decimal" /\ Positive(Thousandths(r))

\* The balance column on save, DecimalField(decimal_places=2): a value in
\* thousandths is rounded to whole cents, a half to the even cent.
Quantize(m) ==
    LET q == m \div 10
        d == m % 10
    IN IF d < 5 \/ (d = 5 /\ q % 2 = 0) THEN q ELSE q + 1

DepositValidate(p) ==
    /\ pc[p] = "start"
    /\ req[p].op = "deposit"
    /\ IF ~DepositValid(req[p]) THEN Reject(p, "invalid")
       ELSE Goto(p, "dep_get") /\ UNCHANGED <<resp, wmap, txid>>
    /\ UNCHANGED <<wallets, balance, ledger, next_id, lock, jobs, req, now, failed, users, refused, pend>>
    /\ Account(p)

\* select_for_update().get_or_create: the locking lookup.
DepositGet(p) ==
    /\ pc[p] = "dep_get"
    /\ LET u == req[p].user
       IN IF u \in wallets
          THEN /\ CanLock(p, u)
               /\ lock' = [lock EXCEPT ![u] = @ \cup {p}]
               /\ wmap' = [wmap EXCEPT ![p][u] = balance[u]]
               /\ Goto(p, "dep_save")
          ELSE /\ Goto(p, "dep_create")
               /\ UNCHANGED <<lock, wmap>>
    /\ UNCHANGED <<wallets, balance, ledger, next_id, jobs, req, now, failed, users, refused, pend, txid, resp>>
    /\ Account(p)

\* The insert of get_or_create inside the atomic block: the new row stays
\* uncommitted and held by this transaction; on IntegrityError the locking
\* lookup is repeated.
DepositCreate(p) ==
    /\ pc[p] = "dep_create"
    /\ LET u == req[p].user
       IN /\ CanInsert(p, u)
          /\ CanLock(p, u)
          /\ lock' = [lock EXCEPT ![u] = @ \cup {p}]
          /\ IF u \in wallets
             THEN /\ wmap' = [wmap EXCEPT ![p][u] = balance[u]]
                  /\ UNCHANGED pend
             ELSE /\ wmap' = [wmap EXCEPT ![p][u] = DefaultBalance]
                  /\ pend' = [pend EXCEPT ![p].ins = @ \cup {u},
                                          ![p].bal[u] = DefaultBalance]
    /\ Goto(p, "dep_save")
    /\ UNCHANGED <<wallets, balance, ledger, next_id, jobs, req, now, failed, users, refused, txid, resp>>
    /\ Account(p)

\* wallet.balance += amount; wallet.save(...).  The local wallet.balance
\* keeps every digit of the sum and is held in thousandths from here on; the
\* row is written in whole cents.
DepositSave(p) ==
    /\ pc[p] = "dep_save"
    /\ LET u == req[p].user
           sum == Credit(10 * wmap[p][u], Thousandths(req[p]))
       IN /\ wmap' = [wmap EXCEPT ![p][u] = sum]
          /\ pend' = [pend EXCEPT ![p].upd = @ \cup {u},
                                  ![p].bal[u] = Quantize(sum)]
    /\ Goto(p, "dep_commit")
    /\ UNCHANGED <<wallets, balance, ledger, next_id, lock, jobs, req, now, failed, users, refused, txid, resp>>
    /\ Account(p)

\* The end of the atomic block and the response, which carries the local
\* wallet.balance (in thousandths).
DepositCommit(p) ==
    /\ pc[p] = "dep_commit"
    /\ Commit(p)
    /\ Respond(p, "ok", wmap[p][req[p].user], 0)
    /\ UNCHANGED <<next_id, jobs, req, now, failed, users, refused>>
    /\ Account(p)

Deposit(p) ==
    \/ DepositValidate(p)
    \/ DepositGet(p)
    \/ DepositCreate(p)
    \/ DepositSave(p)
    \/ DepositCommit(p)

----------------------------------------------------------------------------
\* WalletBalanceView.get

BalanceGet(p) ==
    /\ pc[p] = "start"
    /\ req[p].op = "balance"
    /\ IF req[p].user \in wallets
       THEN Respond(p, "ok", balance[req[p].user], 0)
       ELSE Goto(p, "bal_create") /\ UNCHANGED <<resp, wmap, txid>>
    /\ UNCHANGED <<wallets, balance, ledger, next_id, lock, jobs, req, now, failed, users, refused, pend>>
    /\ Account(p)

BalanceCreate(p) ==
    /\ pc[p] = "bal_create"
    /\ CanInsert(p, req[p].user)
    /\ wallets' = wallets \cup {req[p].user}
    /\ balance' = IF req[p].user \in wallets THEN balance
                  ELSE [balance EXCEPT ![req[p].user] = DefaultBalance]
    /\ Respond(p, "ok", balance'[req[p].user], 0)
    /\ UNCHANGED <<ledger, next_id, lock, jobs, req, now, failed, users, refused, pend>>
    /\ Account(p)

Balance(p) ==
    \/ BalanceGet(p)
    \/ BalanceCreate(p)

----------------------------------------------------------------------------
\* TransactionHistoryView.get

\* A sequence of entries or items is ordered by timestamp, newest first.
NewestFirst(s) == \A i, j \in 1..Len(s) : i < j => s[i].timestamp >= s[j].timestamp

\* The rows of the Transaction table at the positions I as a query returns
\* them: Meta.ordering is '-timestamp', rows of one timestamp come in any order.
QueryResults(I) ==
    {s \in [1..Cardinality(I) -> I] :
        /\ \A i, j \in 1..Cardinality(I) : i # j => s[i] # s[j]
        /\ NewestFirst([k \in 1..Cardinality(I) |-> ledger[s[k]]])}

\* One element of the 'transactions' list of the response.
HistoryItem(tx, type) ==
    [id |-> tx.id, type |-> type,
     counterparty_id |-> IF type = "sent" THEN tx.receiver ELSE tx.sender,
     amount |-> tx.amount, timestamp |-> tx.timestamp]

HistoryItems(s, type) == [k \in 1..Len(s) |-> HistoryItem(ledger[s[k]], type)]

\* transactions.sort(key=timestamp, reverse=True): a stable sort, items of one
\* timestamp keep the order they had.
RECURSIVE SortNewestFirst(_)
SortNewestFirst(s) ==
    IF s = <<>> THEN <<>>
    ELSE LET x == s[Len(s)]
             t == SortNewestFirst(SubSeq(s, 1, Len(s) - 1))
             k == Cardinality({i \in 1..Len(t) : t[i].timestamp >= x.timestamp})
         IN SubSeq(t, 1, k) \o <<x>> \o SubSeq(t, k + 1, Len(t))

\* The first query and its loop: the entries the user sent.
HistorySent(p) ==
    /\ pc[p] = "start"
    /\ req[p].op = "history"
    /\ \E s \in QueryResults({i \in 1..Len(ledger) : ledger[i].sender = req[p].user}) :
          resp' = [resp EXCEPT ![p].transactions = HistoryItems(s, "sent")]
    /\ Goto(p, "hist_received")
    /\ UNCHANGED <<wallets, balance, ledger, next_id, lock, jobs, req, now, failed, users, refused,
                   wmap, pend, txid>>
    /\ Account(p)

\* The second query and its loop, the sort and the response.
HistoryReceived(p) ==
    /\ pc[p] = "hist_received"
    /\ \E s \in QueryResults({i \in 1..Len(ledger) : ledger[i].receiver = req[p].user}) :
          LET all == SortNewestFirst(resp[p].transactions \o HistoryItems(s, "received"))
          IN resp' = [resp EXCEPT ![p] = [status |-> "ok", balance |-> 0,
                                          transaction_id |-> 0,
                                          transactions |-> all, count |-> Len(all)]]
    /\ Goto(p, "done")
    /\ UNCHANGED <<wallets, balance, ledger, next_id, lock, jobs, req, now, failed, users, refused,
                   wmap, pend, txid>>
    /\ Account(p)

History(p) ==
    \/ HistorySent(p)
    \/ HistoryReceived(p)

----------------------------------------------------------------------------
\* The task queue, the receipt task and the clock.

\* generate_transaction_receipt.delay raises (the broker cannot be reached):
\* the view does not catch it, the request ends with a server error after
\* the transfer has been committed.
TransferDelayFails(p) ==
    /\ pc[p] = "delay"
    /\ Reject(p, "error")
    /\ UNCHANGED <<wallets, balance, ledger, next_id, lock, jobs, req, now, failed, users, refused,
                   pend>>
    /\ Account(p)

\* f"receipts/receipt_{transaction_id}_{timestamp}.pdf", the timestamp being
\* the time of the run to the second.
ReceiptName(id, t) == <<id, t>>

\* Mutant: the task saves the row with a fresh timestamp.
ReceiptUpdateStamped(row, t) ==
    [row EXCEPT !.receipt_path = ReceiptName(row.id, t), !.timestamp = t]

\* transaction.receipt_path = relative_path; save(update_fields=['receipt_path'])
ReceiptUpdate(row, t) == [row EXCEPT !.receipt_path = ReceiptName(row.id, t)]

\* One run of generate_transaction_receipt for the i-th submitted job; the
\* queue may deliver a job more than once.  A transaction id without a row
\* changes nothing (DoesNotExist).
RunReceipt(i) ==
    /\ ledger' = [k \in 1..Len(ledger) |->
                    IF ledger[k].id = jobs[i] THEN ReceiptUpdate(ledger[k], now)
                    ELSE ledger[k]]
    /\ UNCHANGED <<wallets, balance, next_id, lock, jobs, req, pc, wmap, pend,
                   txid, resp, now, failed, eff, users, refused>>

\* A run that raises before the row is written (the directory or the file
\* cannot be written): the task ends in failure, nothing is retried.
FailReceipt(i) ==
    /\ failed' = failed \cup {jobs[i]}
    /\ UNCHANGED <<wallets, balance, ledger, next_id, lock, jobs, req, pc, wmap,
                   pend, txid, resp, now, eff, users, refused>>

Worker == \E i \in 1..Len(jobs) : RunReceipt(i) \/ FailReceipt(i)

\* A second passes.
Tick ==
    /\ now < MaxClock
    /\ now' = now + 1
    /\ UNCHANGED <<wallets, balance, ledger, next_id, lock, jobs, req, pc, wmap,
                   pend, txid, resp, failed, eff, users, refused>>

----------------------------------------------------------------------------
\* Failure of the store inside the atomic block of a transfer.

\* The handler is inside transaction.atomic() of _execute_transfer.
InAtomic(p) == pc[p] \in {"lock1", "lock2", "check", "commit"}

\* Mutant: the exception leaves the block without a rollback: what the block
\* has written is committed.
TransferAbortCommits(p) ==
    /\ InAtomic(p)
    /\ Commit(p)
    /\ Reject(p, "error")
    /\ UNCHANGED <<next_id, jobs, req, now, failed, users, refused>>
    /\ Account(p)

\* A statement of the block raises a database error (lock timeout, lost
\* connection, failed commit): transaction.atomic() rolls back, the locks are
\* released, and the exception, which is no ValueError, leaves post() before
\* the job is submitted.
TransferAbort(p) ==
    /\ InAtomic(p)
    /\ lock' = Release(p)
    /\ pend' = [pend EXCEPT ![p] = NoPending]
    /\ Reject(p, "error")
    /\ UNCHANGED <<wallets, balance, ledger, next_id, jobs, req, now, failed, users, refused>>
    /\ Account(p)

----------------------------------------------------------------------------
\* Deletion of a user (User.delete()).

\* Mutant: the foreign keys of Transaction do not protect the user.
ProtectedNever(u) == FALSE

\* Transaction.sender and Transaction.receiver are on_delete=PROTECT: a
\* Transaction row refers to the user.
Protected(u) ==
    \E i \in 1..Len(ledger) : ledger[i].sender = u \/ ledger[i].receiver = u

\* A request of user u, or a transfer to u that has found u, is being served.
Serving(u) ==
    \E p \in Procs :
        /\ pc[p] # "done"
        /\ \/ req[p].user = u
           \/ req[p].receiver_id = u /\ pc[p] # "start"

\* The deletion raises ProtectedError and deletes nothing.
UserDeleteRefused(u) ==
    /\ u \in users
    /\ Protected(u)
    /\ refused' = refused \cup {u}
    /\ UNCHANGED <<wallets, balance, ledger, next_id, lock, jobs, req, pc, wmap,
                   pend, txid, resp, now, failed, eff, users>>

\* The deletion of a user nothing refers to: Wallet.user is on_delete=CASCADE,
\* the user's wallet row goes with the user.  Unprotected users are deleted
\* while none of their requests is being served.
UserDeleteCascade(u) ==
    /\ u \in users
    /\ ~Protected(u)
    /\ ~Serving(u)
    /\ users' = users \ {u}
    /\ wallets' = wallets \ {u}
    /\ balance' = [balance EXCEPT ![u] = 0]
    /\ UNCHANGED <<ledger, next_id, lock, jobs, req, pc, wmap, pend, txid, resp,
                   now, failed, eff, refused>>

UserDelete(u) ==
    \/ UserDeleteRefused(u)
    \/ UserDeleteCascade(u)

----------------------------------------------------------------------------
\* The specifications.

Next == \E p \in Procs : Transfer(p) \/ Deposit(p) \/ Balance(p)

Spec == Init /\ [][Next]_vars

\* Fair scheduling: a handler that can take a step eventually takes one.
Fairness == \A p \in Procs : WF_vars(Transfer(p) \/ Deposit(p) \/ Balance(p))

\* Liveness is checked over requests of one cent.
InitUnit == Init /\ \A p \in Procs : req[p].amount <= MinAmount

FairSpec == InitUnit /\ [][Next]_vars /\ Fairness

\* Requests as they arrive, malformed ones included, MaxInput at a time.
InitInput == InitOf(Requests, MaxInput)

InputSpec == InitInput /\ [][Next]_vars

\* The handlers together with the task queue, the worker and the clock.
InitReceipt == InitOf(WellFormedRequests, MaxInput)

NextReceipt ==
    \/ Next
    \/ \E p \in Procs : TransferDelayFails(p)
    \/ Worker
    \/ Tick

ReceiptSpec == InitReceipt /\ [][NextReceipt]_vars

\* The handlers together with history queries, over requests of one cent,
\* with the clock.
InitHistory ==
    /\ InitOf(WellFormedRequests \cup HistoryRequests, NProcs)
    /\ \A p \in Procs : req[p].amount <= MinAmount

NextHistory ==
    \/ Next
    \/ \E p \in Procs : History(p)
    \/ Tick

HistorySpec == InitHistory /\ [][NextHistory]_vars

\* The handlers together with deletions of users.
InitDelete == InitOf(WellFormedRequests, MaxInput)

NextDelete ==
    \/ Next
    \/ \E u \in Users : UserDelete(u)

DeleteSpec == InitDelete /\ [][NextDelete]_vars

\* The handlers together with failures of the store, over requests of one cent.
NextAbort ==
    \/ Next
    \/ \E p \in Procs : TransferAbort(p)

AbortSpec == InitUnit /\ [][NextAbort]_vars

----------------------------------------------------------------------------
\* Vocabulary of the properties.

Done(p) == pc[p] = "done"
AllDone == \A p \in Procs : Done(p)
IsTransfer(p) == req[p].op = "transfer"
Succeeded(p) == resp[p].status = "ok"
Insufficient(p) == resp[p].status = "insufficient"

\* The wallets whose balance a request may change.
Affects(r) ==
    IF r.op = "transfer" THEN {r.user, r.receiver_id}
    ELSE IF r.op = "deposit" THEN {r.user}
    ELSE {}

RECURSIVE SumAmounts(_)
SumAmounts(S) ==
    IF S = {} THEN 0
    ELSE LET p == CHOOSE x \in S : TRUE
         IN req[p].amount + SumAmounts(S \ {p})

TransfersFrom(w) == {p \in Procs : IsTransfer(p) /\ req[p].user = w}
SuccessfulFrom(w) == {p \in TransfersFrom(w) : Succeeded(p)}

\* Every request that can change w's balance is a transfer sent by w.
OutgoingOnly(w) == \A p \in Procs : w \in Affects(req[p]) => p \in TransfersFrom(w)

\* C1: in every reachable state every wallet's committed balance is >= 0.
C1_BalanceNonNegative == \A u \in Users : balance[u] >= 0

C1_Witness ==
    \E p \in Procs : /\ IsTransfer(p) /\ Succeeded(p)
                     /\ balance[req[p].user] = 0
                     /\ \E q \in TransfersFrom(req[p].user) : Insufficient(q)

\* C2: when the only requests that can change wallet w are transfers sent by
\* w and all of them have finished, w's balance is its initial balance minus
\* the amounts of those reported successful, and that sum does not exceed the
\* initial balance.
C2_FinalBalance ==
    \A w \in Users :
        (OutgoingOnly(w) /\ \A p \in TransfersFrom(w) : Done(p))
        => /\ balance[w] = InitBalance(w) - SumAmounts(SuccessfulFrom(w))
           /\ SumAmounts(SuccessfulFrom(w)) <= InitBalance(w)

C2_Witness ==
    \E w \in Users :
        /\ OutgoingOnly(w)
        /\ Cardinality(TransfersFrom(w)) = NProcs
        /\ \A p \in TransfersFrom(w) : Done(p)
        /\ Cardinality(SuccessfulFrom(w)) >= 2
        /\ \E p \in TransfersFrom(w) : Insufficient(p)

\* Two handlers send the sender's whole initial balance to two different
\* receivers, and no other request is a transfer or changes the sender's wallet.
DoubleSpend(p, q) ==
    /\ p # q
    /\ IsTransfer(p) /\ IsTransfer(q)
    /\ req[p].user = req[q].user
    /\ req[p].receiver_id # req[q].receiver_id
    /\ req[p].amount = InitBalance(req[p].user)
    /\ req[q].amount = InitBalance(req[p].user)
    /\ \A o \in Procs \ {p, q} : ~IsTransfer(o) /\ req[p].user \notin Affects(req[o])

\* C3: of two concurrent transfers of the sender's whole balance X to two
\* different receivers exactly one is reported successful and the other fails
\* with insufficient funds; the sender ends with 0 and the ledger holds
\* exactly one entry.
C3_NoDoubleSpend ==
    \A p, q \in Procs :
        (DoubleSpend(p, q) /\ Done(p) /\ Done(q))
        => /\ \/ Succeeded(p) /\ Insufficient(q)
              \/ Succeeded(q) /\ Insufficient(p)
           /\ balance[req[p].user] = 0
           /\ Len(ledger) = 1

C3_Witness ==
    \E p, q \in Procs : DoubleSpend(p, q) /\ Done(p) /\ Done(q) /\ Succeeded(q)

\* Two handlers transfer the same amount X to each other between wallets that
\* both hold 2X, and no other request can change either wallet.
Bidirectional(p, q) ==
    /\ p # q
    /\ IsTransfer(p) /\ IsTransfer(q)
    /\ req[p].user = req[q].receiver_id
    /\ req[q].user = req[p].receiver_id
    /\ req[p].amount = req[q].amount
    /\ InitBalance(req[p].user) = 2 * req[p].amount
    /\ InitBalance(req[q].user) = 2 * req[p].amount
    /\ \A o \in Procs \ {p, q} : Affects(req[o]) \cap {req[p].user, req[q].user} = {}

BothSettled(p, q) ==
    /\ Done(p) /\ Done(q)
    /\ Succeeded(p) /\ Succeeded(q)
    /\ balance[req[p].user] = InitBalance(req[p].user)
    /\ balance[req[q].user] = InitBalance(req[q].user)

\* C4: two simultaneous opposite transfers of X between wallets holding 2X
\* both eventually complete, both are reported successful, and both balances
\* end at their initial value.
C4_BidirectionalCompletes ==
    /\ <>(\A p, q \in Procs : Bidirectional(p, q) => BothSettled(p, q))
    /\ [](\A p, q \in Procs :
            (Bidirectional(p, q) /\ Done(p) /\ Done(q)) => BothSettled(p, q))

C4_Witness == \E p, q \in Procs : Bidirectional(p, q) /\ BothSettled(p, q)

\* The Wallet row the next statement of handler p needs.
Wanted(p) ==
    CASE pc[p] = "lock1" -> {LockOrder(req[p].user, req[p].receiver_id)[1]}
      [] pc[p] = "lock2" -> {LockOrder(req[p].user, req[p].receiver_id)[2]}
      [] pc[p] \in {"dep_get", "dep_create", "bal_create", "ins_sender"} -> {req[p].user}
      [] pc[p] = "ins_receiver" -> {req[p].receiver_id}
      [] OTHER -> {}

\* Handler p waits for a row that handler q holds.
WaitsFor(p, q) == p # q /\ \E u \in Wanted(p) : q \in lock[u]

RECURSIVE WaitClosure(_, _)
WaitClosure(S, n) ==
    IF n = 0 THEN S
    ELSE WaitClosure(S \cup {q \in Procs : \E p \in S : WaitsFor(p, q)}, n - 1)

NoWaitCycle ==
    \A p \in Procs : p \notin WaitClosure({q \in Procs : WaitsFor(p, q)}, NProcs)

\* C5: no reachable state has a cycle of handlers each waiting for a row lock
\* held by the next, and under fair scheduling every handler finishes.
C5_DeadlockFree == []NoWaitCycle /\ <>AllDone

\* A ring of transfers 1 -> 2 -> ... -> 1 is in flight and two handlers wait
\* in a chain.
C5_Witness ==
    /\ \E p, q, o \in Procs :
          /\ IsTransfer(p) /\ IsTransfer(q) /\ IsTransfer(o)
          /\ req[p].receiver_id = req[q].user
          /\ req[q].receiver_id = req[o].user
          /\ req[o].receiver_id = req[p].user
          /\ Cardinality({req[p].user, req[q].user, req[o].user}) = 3
    /\ \E p, q, o \in Procs : WaitsFor(p, q) /\ WaitsFor(q, o)

\* C6: no transfer holds the lock of its higher-id wallet without holding the
\* lock of its lower-id wallet.
C6_AscendingLockOrder ==
    \A p \in Procs :
        IsTransfer(p) =>
            LET lo == IF req[p].user < req[p].receiver_id
                      THEN req[p].user ELSE req[p].receiver_id
                hi == IF req[p].user < req[p].receiver_id
                      THEN req[p].receiver_id ELSE req[p].user
            IN p \in lock[hi] => p \in lock[lo]

\* A transfer whose sender has the higher id holds the receiver's row only.
C6_Witness ==
    \E p \in Procs :
        /\ IsTransfer(p)
        /\ req[p].user > req[p].receiver_id
        /\ p \in lock[req[p].receiver_id]
        /\ p \notin lock[req[p].user]

ZeroBalances == [u \in Users |-> 0]

\* C7: a transfer that failed with insufficient funds has changed no balance,
\* appended no ledger entry and submitted no receipt job.
C7_InsufficientNoEffect ==
    \A p \in Procs :
        Insufficient(p) =>
            /\ eff[p].bal = ZeroBalances
            /\ eff[p].led = 0
            /\ eff[p].job = 0
            /\ \A i \in 1..Len(jobs) : jobs[i] # resp[p].transaction_id
            /\ resp[p].transaction_id = 0

C7_Witness ==
    \E p, q \in Procs :
        /\ Insufficient(p)
        /\ Succeeded(q) /\ IsTransfer(q)
        /\ req[p].user = req[q].user

\* C8: a transfer that failed with insufficient funds has created no wallet.
C8_FailedTransferCreatesNoWallet ==
    \A p \in Procs : Insufficient(p) => eff[p].created = {}

\* The transfers whose atomic block has committed.
CommittedTransfers == {p \in Procs : IsTransfer(p) /\ (pc[p] = "delay" \/ Succeeded(p))}

EntriesWithId(id) == {i \in 1..Len(ledger) : ledger[i].id = id}

\* C9: the ledger holds one entry per committed transfer; a transfer reported
\* successful has exactly one entry, with its sender, receiver and amount,
\* appended in the step that changed the balances; failed requests have none.
C9_OneEntryPerTransfer ==
    /\ Len(ledger) = Cardinality(CommittedTransfers)
    /\ \A p \in Procs :
          /\ (IsTransfer(p) /\ Succeeded(p)) =>
                /\ eff[p].led = 1
                /\ Cardinality(EntriesWithId(resp[p].transaction_id)) = 1
                /\ \A i \in EntriesWithId(resp[p].transaction_id) :
                      /\ ledger[i].sender = req[p].user
                      /\ ledger[i].receiver = req[p].receiver_id
                      /\ ledger[i].amount = req[p].amount
          /\ (Done(p) /\ ~(IsTransfer(p) /\ Succeeded(p))) => eff[p].led = 0
          /\ IsTransfer(p) =>
                (eff[p].led = 1 <=> eff[p].bal[req[p].user] = 0 - req[p].amount)
                /\ eff[p].led \in {0, 1}

C9_Witness ==
    /\ Len(ledger) = 2
    /\ \E p, q \in Procs : /\ IsTransfer(p) /\ Succeeded(p)
                           /\ IsTransfer(q) /\ Insufficient(q)

\* C10: a successful transfer of a from s to r has lowered s's balance by a,
\* raised r's balance by a and changed no other balance.
C10_TransferEffect ==
    \A p \in Procs :
        (IsTransfer(p) /\ Succeeded(p)) =>
            eff[p].bal = [u \in Users |->
                            IF u = req[p].user THEN 0 - req[p].amount
                            ELSE IF u = req[p].receiver_id THEN req[p].amount
                            ELSE 0]

C10_Witness ==
    \E p, q \in Procs :
        /\ p # q
        /\ IsTransfer(p) /\ Succeeded(p)
        /\ IsTransfer(q) /\ Succeeded(q)
        /\ req[p].user = req[q].receiver_id

----------------------------------------------------------------------------
\* Input validation, checked over the requests as they arrive.

IsDeposit(p) == req[p].op = "deposit"
IsBalance(p) == req[p].op = "balance"
HoldsNoLock(p) == \A u \in Users : p \notin lock[u]

\* The handler looked at the request and went no further.
StoppedAtValidation(p) == pc[p] \in {"start", "done"}

\* An amount the transfer accepts: there, at most two fractional digits, > 0.
ValidAmount(r) == r.body = "decimal" /\ r.mills = 0 /\ r.amount > 0

\* C11: a transfer with a valid amount whose receiver is the sender goes no
\* further than validation and ends with the self-transfer error, whatever
\* the sender's balance.
C11_SelfTransferRejected ==
    \A p \in Procs :
        (IsTransfer(p) /\ ValidAmount(req[p]) /\ req[p].receiver_id = req[p].user)
        => /\ StoppedAtValidation(p)
           /\ Done(p) => resp[p].status = "self"

\* A self-transfer the sender could afford was rejected, and so was one the
\* sender could not afford.
C11_Witness ==
    \E p, q \in Procs :
        /\ IsTransfer(p) /\ req[p].receiver_id = req[p].user
        /\ resp[p].status = "self"
        /\ req[p].user \in wallets /\ balance[req[p].user] >= req[p].amount
        /\ IsTransfer(q) /\ req[q].receiver_id = req[q].user
        /\ resp[q].status = "self"
        /\ balance[req[q].user] < req[q].amount

\* C12 as stated: every finished transfer to a receiver id that is no user
\* has ended with the receiver-not-found error.
C12_UnknownReceiverNotFound ==
    \A p \in Procs :
        (IsTransfer(p) /\ req[p].receiver_id \notin Users /\ Done(p))
        => resp[p].status = "notfound"

\* C12: a transfer with a valid amount to a receiver id that is no user goes
\* no further than validation and ends with the receiver-not-found error.
C12_UnknownReceiverValidAmount ==
    \A p \in Procs :
        (IsTransfer(p) /\ ValidAmount(req[p]) /\ req[p].receiver_id \notin Users)
        => /\ StoppedAtValidation(p)
           /\ Done(p) => resp[p].status = "notfound"

C12_Witness ==
    \E p \in Procs :
        /\ IsTransfer(p) /\ req[p].receiver_id = UnknownUser
        /\ resp[p].status = "notfound"

\* The amount of a transfer is missing, <= 0, or has a third fractional digit.
MalformedAmount(r) ==
    \/ r.body = "missing"
    \/ r.body = "decimal" /\ (Thousandths(r) <= 0 \/ r.mills > 0)

\* C13: a transfer whose amount is <= 0, missing or has more than two
\* fractional digits goes no further than validation, ends with the
\* invalid-request error, never requests or holds a wallet lock and changes
\* nothing.
C13_MalformedAmountRejected ==
    \A p \in Procs :
        (IsTransfer(p) /\ MalformedAmount(req[p]))
        => /\ StoppedAtValidation(p)
           /\ Done(p) => resp[p].status = "invalid"
           /\ HoldsNoLock(p)
           /\ eff[p] = NoEffect

\* An amount above zero with a third fractional digit was rejected, and so
\* was a request without amount.
C13_Witness ==
    \E p, q \in Procs :
        /\ IsTransfer(p) /\ req[p].body = "decimal"
        /\ req[p].amount >= MinAmount /\ req[p].mills > 0
        /\ req[p].receiver_id \in Users \ {req[p].user}
        /\ resp[p].status = "invalid"
        /\ IsTransfer(q) /\ req[q].body = "missing"
        /\ resp[q].status = "invalid"

\* C14: a successful deposit has raised the caller's balance by its amount,
\* changed no other balance and appended no ledger entry.
C14_DepositEffect ==
    \A p \in Procs :
        (IsDeposit(p) /\ Succeeded(p))
        => /\ 10 * eff[p].bal[req[p].user] = Thousandths(req[p])
           /\ \A u \in Users \ {req[p].user} : eff[p].bal[u] = 0
           /\ eff[p].led = 0

\* The amount of a deposit is missing, no number, or <= 0.
RefusedDepositAmount(r) == r.body \in {"missing", "text"} \/ Thousandths(r) <= 0

\* C15: a deposit whose amount is missing, unparseable or <= 0 goes no further
\* than validation, ends with an error, and changes no balance, no wallet and
\* no ledger entry.
C15_InvalidDepositRejected ==
    \A p \in Procs :
        (IsDeposit(p) /\ RefusedDepositAmount(req[p]))
        => /\ StoppedAtValidation(p)
           /\ Done(p) => resp[p].status = "invalid"
           /\ HoldsNoLock(p)
           /\ eff[p] = NoEffect

\* Deposits without amount, of a text and of zero by users without a wallet
\* and with one were rejected.
C15_Witness ==
    \E p, q \in Procs :
        /\ IsDeposit(p) /\ req[p].body \in {"missing", "text"}
        /\ resp[p].status = "invalid"
        /\ req[p].user \notin wallets
        /\ IsDeposit(q) /\ req[q].body = "decimal" /\ Thousandths(req[q]) <= 0
        /\ resp[q].status = "invalid"
        /\ req[q].user \in wallets

----------------------------------------------------------------------------
\* Wallet creation.

\* The rows of the Wallet table with user u: the committed one and the
\* uncommitted inserts.
WalletRows(u) ==
    (IF u \in wallets THEN 1 ELSE 0) + Cardinality({p \in Procs : u \in pend[p].ins})

\* The handlers whose insert of a wallet for u was committed.
Creators(u) == {p \in Procs : u \in eff[p].created}

\* The handler is between the lookup and the insert of get_or_create.
Inserting(p) == pc[p] \in {"ins_receiver", "ins_sender", "dep_create", "bal_create"}

\* C16: no user has more than one Wallet row, committed or not; a wallet is
\* inserted by at most one handler and never for a user who had one; and every
\* finished request ended ok or with insufficient funds, none with an error
\* of the creation.
C16_OneWalletPerUser ==
    /\ \A u \in Users :
          /\ WalletRows(u) <= 1
          /\ Cardinality(Creators(u)) + (IF u \in InitWallets THEN 1 ELSE 0) <= 1
    /\ \A p \in Procs : Done(p) => resp[p].status \in {"none", "ok", "insufficient"}

\* A balance query, a deposit and a transfer all found user NUsers without a
\* wallet; one has inserted it and the other two are about to insert.
C16_Witness ==
    \E p, q, o \in Procs :
        /\ IsBalance(p) /\ IsDeposit(q) /\ IsTransfer(o)
        /\ \A h \in {p, q, o} : NUsers \in Affects(req[h]) \cup {req[h].user}
        /\ Cardinality({h \in {p, q, o} : Inserting(h) /\ Wanted(h) = {NUsers}}) = 2
        /\ Cardinality(Creators(NUsers)) = 1

\* C17: a finished balance query, deposit or transfer leaves its users with a
\* wallet; a balance query has changed no balance and reports zero for a
\* wallet it created; a successful transfer to a receiver who had no wallet,
\* the only request touching that wallet, leaves the receiver's balance at
\* the amount; and a wallet appears with balance zero, or with the amount of
\* the deposit whose atomic block created it.
C17_LazyWallet ==
    /\ [](\A p \in Procs :
            /\ (Done(p) /\ resp[p].status \in {"ok", "insufficient"})
               => Affects(req[p]) \cup {req[p].user} \subseteq wallets
            /\ (IsBalance(p) /\ Done(p))
               => /\ eff[p].bal = ZeroBalances
                  /\ eff[p].created # {} => resp[p].balance = 0
            /\ (/\ IsTransfer(p) /\ Succeeded(p)
                /\ req[p].receiver_id \notin InitWallets
                /\ \A q \in Procs \ {p} : req[p].receiver_id \notin Affects(req[q]))
               => balance[req[p].receiver_id] = req[p].amount)
    /\ [][\A u \in Users :
            (u \notin wallets /\ u \in wallets')
            => \/ balance'[u] = 0
               \/ \E p \in Procs : /\ IsDeposit(p) /\ pc[p] = "dep_commit"
                                   /\ req[p].user = u
                                   /\ balance'[u] = req[p].amount]_vars

\* A transfer created its receiver's wallet and left it at the amount, and a
\* balance query of that user has finished.
C17_Witness ==
    \E p, q \in Procs :
        /\ IsTransfer(p) /\ Succeeded(p)
        /\ req[p].receiver_id \in eff[p].created
        /\ balance[req[p].receiver_id] = req[p].amount
        /\ IsBalance(q) /\ Done(q) /\ req[q].user = req[p].receiver_id

----------------------------------------------------------------------------
\* The ledger and the receipt task.

\* C18: every step keeps every ledger entry in its place with the same id,
\* sender, receiver, amount and timestamp.
C18_LedgerAppendOnly ==
    [][/\ Len(ledger') >= Len(ledger)
       /\ \A i \in 1..Len(ledger) :
             /\ ledger'[i].id = ledger[i].id
             /\ ledger'[i].sender = ledger[i].sender
             /\ ledger'[i].receiver = ledger[i].receiver
             /\ ledger'[i].amount = ledger[i].amount
             /\ ledger'[i].timestamp = ledger[i].timestamp]_vars

\* An entry got its receipt at a later second than its timestamp, and a
\* second entry was appended after it.
C18_Witness ==
    /\ Len(ledger) >= 2
    /\ ledger[1].receipt_path # NoReceipt
    /\ ledger[1].receipt_path[2] > ledger[1].timestamp
    /\ ledger[2].timestamp > ledger[1].timestamp

\* C19: a receipt reference that is set never changes in a later step.
C19_ReceiptSetOnce ==
    [][\A i \in 1..Len(ledger) :
          ledger[i].receipt_path # NoReceipt
          => ledger'[i].receipt_path = ledger[i].receipt_path]_vars

\* C20: a transfer whose ledger entry is committed is reported successful
\* once it has finished, with its debit in place, and the entry of a
\* transfer whose receipt run failed is still in the ledger.
C20_ReceiptFailureIsolated ==
    /\ \A p \in Procs :
          (IsTransfer(p) /\ Done(p) /\ eff[p].led = 1)
          => /\ Succeeded(p)
             /\ eff[p].bal[req[p].user] = 0 - req[p].amount
    /\ \A id \in failed : Cardinality(EntriesWithId(id)) = 1

----------------------------------------------------------------------------
\* The receipt job of a transfer.

JobsWithId(id) == {i \in 1..Len(jobs) : jobs[i] = id}

\* C21: every submitted job carries the id of a committed ledger entry and
\* no id is submitted twice; a transfer reported successful has submitted one
\* job, the one with the id of its own ledger entry; a request that ended
\* otherwise has submitted none; and a transfer submits nothing before its
\* atomic block has committed.
C21_JobOncePerSuccess ==
    /\ \A i \in 1..Len(jobs) :
          /\ Cardinality(EntriesWithId(jobs[i])) = 1
          /\ Cardinality(JobsWithId(jobs[i])) = 1
    /\ \A p \in Procs :
          /\ (IsTransfer(p) /\ Succeeded(p))
             => /\ eff[p].job = 1
                /\ Cardinality(JobsWithId(resp[p].transaction_id)) = 1
                /\ \A i \in EntriesWithId(resp[p].transaction_id) :
                      /\ ledger[i].sender = req[p].user
                      /\ ledger[i].receiver = req[p].receiver_id
          /\ ~(IsTransfer(p) /\ Succeeded(p)) => eff[p].job = 0
          /\ eff[p].job = 1 => eff[p].led = 1

\* A transfer reported successful has submitted its job, and a transfer that
\* failed with insufficient funds has finished.
C21_Witness ==
    /\ Len(jobs) = 1
    /\ \E p, q \in Procs : /\ IsTransfer(p) /\ Succeeded(p)
                           /\ jobs[1] = resp[p].transaction_id
                           /\ IsTransfer(q) /\ Insufficient(q)

----------------------------------------------------------------------------
\* The transaction history of a user.

IsHistory(p) == req[p].op = "history"

\* The ids of the entries of the ledger that user u sent or received.
EntriesOf(u) ==
    {ledger[i].id : i \in {j \in 1..Len(ledger) :
                              ledger[j].sender = u \/ ledger[j].receiver = u}}

SentBy(u) == {ledger[i].id : i \in {j \in 1..Len(ledger) : ledger[j].sender = u}}

ItemIds(s) == {s[k].id : k \in 1..Len(s)}

\* An item of a history response is the ledger entry of its id, seen from u.
ItemOfLedger(it, u) ==
    \E i \in 1..Len(ledger) :
        /\ ledger[i].id = it.id
        /\ it.amount = ledger[i].amount
        /\ it.timestamp = ledger[i].timestamp
        /\ \/ it.type = "sent" /\ ledger[i].sender = u
                               /\ it.counterparty_id = ledger[i].receiver
           \/ it.type = "received" /\ ledger[i].receiver = u
                                   /\ it.counterparty_id = ledger[i].sender

\* What every answered history query satisfies.
HistoryShape(p) ==
    LET T == resp[p].transactions
    IN /\ resp[p].status = "ok"
       /\ \A k \in 1..Len(T) : ItemOfLedger(T[k], req[p].user)
       /\ \A j, k \in 1..Len(T) : j # k => T[j].id # T[k].id
       /\ NewestFirst(T)
       /\ resp[p].count = Len(T)

\* The step that answers a history query whose first read is still current
\* returns exactly the entries of the user in the ledger.
HistoryExact(p) ==
    (/\ IsHistory(p)
     /\ pc[p] = "hist_received"
     /\ pc'[p] = "done"
     /\ ItemIds(resp[p].transactions) = SentBy(req[p].user))
    => ItemIds(resp'[p].transactions) = EntriesOf(req[p].user)

\* The ids of the entries of user u among the first k entries of the ledger:
\* the ledger only grows at its end, so these are the entries of u at the
\* moment the ledger had k entries.
EntriesOfAt(u, k) ==
    {ledger[i].id : i \in {j \in 1..k : ledger[j].sender = u \/ ledger[j].receiver = u}}

\* C22: a transaction-history query of user u returns exactly the ledger
\* entries whose sender or receiver is u (the entries of u at some moment of
\* the ledger), each once, each tagged sent or received from u's side, newest
\* first, with count the number returned.
C22_HistoryExactlyEntries ==
    \A p \in Procs :
        (IsHistory(p) /\ Done(p))
        => /\ HistoryShape(p)
           /\ \E k \in 0..Len(ledger) :
                 ItemIds(resp[p].transactions) = EntriesOfAt(req[p].user, k)

\* What does hold: every answer has the shape of C22, and an answer whose
\* first read has not been overtaken by a commit is exactly the user's entries.
HistoryOfUser ==
    /\ [](\A p \in Procs : (IsHistory(p) /\ Done(p)) => HistoryShape(p))
    /\ [][\A p \in Procs : HistoryExact(p)]_vars

\* A query answered with the two entries of its user, the received one newer
\* than the sent one.
HistoryAnswered ==
    \E p \in Procs :
        /\ IsHistory(p)
        /\ Done(p)
        /\ resp[p].count = 2
        /\ ItemIds(resp[p].transactions) = EntriesOf(req[p].user)
        /\ resp[p].transactions[1].type = "received"
        /\ resp[p].transactions[2].type = "sent"
        /\ resp[p].transactions[1].timestamp > resp[p].transactions[2].timestamp

----------------------------------------------------------------------------
\* Deletion of users.

\* The step is an attempt to delete user u.
DeleteStep(u) ==
    \/ u \in refused' \ refused
    \/ u \in users \ users'

----------------------------------------------------------------------------
\* Serial executions: the requests served one at a time, each from its first
\* statement to its response.

SerialStart ==
    [wallets |-> InitWallets,
     balance |-> [u \in Users |-> InitBalance(u)],
     rows |-> {},
     next_id |-> 1,
     status |-> [p \in Procs |-> "none"]]

\* get_or_create of the wallets of the users in U.
SerialCreate(s, U) ==
    [s EXCEPT !.wallets = @ \cup U,
              !.balance = [u \in Users |-> IF u \in U \ s.wallets
                                           THEN DefaultBalance ELSE @[u]]]

\* TransferView.post run alone on a well-formed request.
SerialTransfer(s, p) ==
    LET r == req[p]
        t == SerialCreate(s, {r.receiver_id, r.user})
    IN IF ~Sufficient(t.balance[r.user], r.amount)
       THEN [t EXCEPT !.status[p] = "insufficient"]
       ELSE [t EXCEPT !.balance[r.user] = Debit(@, r.amount),
                      !.balance[r.receiver_id] = Credit(@, r.amount),
                      !.rows = @ \cup {[id |-> t.next_id, sender |-> r.user,
                                        receiver |-> r.receiver_id,
                                        amount |-> r.amount, timestamp |-> 0,
                                        receipt_path |-> NoReceipt]},
                      !.next_id = @ + 1,
                      !.status[p] = "ok"]

\* DepositView.post run alone on a well-formed request.
SerialDeposit(s, p) ==
    LET t == SerialCreate(s, {req[p].user})
    IN [t EXCEPT !.balance[req[p].user] = Credit(@, req[p].amount),
                 !.status[p] = "ok"]

\* WalletBalanceView.get run alone.
SerialBalance(s, p) ==
    [SerialCreate(s, {req[p].user}) EXCEPT !.status[p] = "ok"]

SerialRequest(s, p) ==
    CASE req[p].op = "transfer" -> SerialTransfer(s, p)
      [] req[p].op = "deposit" -> SerialDeposit(s, p)
      [] req[p].op = "balance" -> SerialBalance(s, p)
      [] OTHER -> s

\* The store and the outcomes after the first k requests of the order f.
RECURSIVE SerialRun(_, _)
SerialRun(f, k) ==
    IF k = 0 THEN SerialStart ELSE SerialRequest(SerialRun(f, k - 1), f[k])

SerialOrders == {f \in [Procs -> Procs] : \A p, q \in Procs : p # q => f[p] # f[q]}

\* The store and the responses are those of the serial execution in order f.
EqualsSerial(f) ==
    LET s == SerialRun(f, NProcs)
    IN /\ s.wallets = wallets
       /\ s.balance = balance
       /\ s.rows = {ledger[i] : i \in 1..Len(ledger)}
       /\ \A p \in Procs : s.status[p] = resp[p].status

\* C24: when every request of a concurrent execution is answered, the
\* balances, the ledger and the outcome of every request are those of a
\* serial execution of the same requests in some order.
C24_Serializable == AllDone => \E f \in SerialOrders : EqualsSerial(f)

\* Three requests whose outcome depends on their order have been answered:
\* two transfers of the sender's whole balance of which one succeeded, and a
\* deposit to that sender.
C24_Witness ==
    /\ AllDone
    /\ \E p, q, d \in Procs :
          /\ IsTransfer(p) /\ Succeeded(p)
          /\ IsTransfer(q) /\ Insufficient(q)
          /\ req[p].user = req[q].user
          /\ IsDeposit(d) /\ Succeeded(d) /\ req[d].user = req[p].user
          /\ ~EqualsSerial([x \in Procs |-> x])

----------------------------------------------------------------------------
\* Waiting.

\* The other handlers that hold the lock of a wallet of p's request.
Blockers(p) ==
    {q \in Procs \ {p} : \E u \in Affects(req[p]) : q \in lock[u]}

\* Handler q serves a transfer or deposit on wallets other than those of p and
\* is inside its atomic block, holding every lock it takes.
DisjointHolder(p, q) ==
    /\ q # p
    /\ Affects(req[q]) # {}
    /\ Affects(req[q]) \cap Affects(req[p]) = {}
    /\ \A u \in Affects(req[q]) : q \in lock[u]

----------------------------------------------------------------------------
\* Aborted transfers.

Aborted(p) == IsTransfer(p) /\ resp[p].status = "error"

\* The whole effect of a committed transfer on the balances.
TransferEffect(r) ==
    [u \in Users |-> IF u = r.user THEN 0 - r.amount
                     ELSE IF u = r.receiver_id THEN r.amount ELSE 0]

\* C26: a transfer whose atomic block was aborted has changed no balance,
\* appended no ledger entry, submitted no job and holds no lock; and at every
\* moment the committed effect of every transfer is nothing or the whole
\* transfer (debit, credit and ledger entry together).
C26_AbortNoEffect ==
    \A p \in Procs :
        /\ Aborted(p)
           => /\ eff[p].bal = ZeroBalances
              /\ eff[p].led = 0
              /\ eff[p].job = 0
              /\ HoldsNoLock(p)
              /\ pend[p] = NoPending
        /\ IsTransfer(p)
           => \/ eff[p].bal = ZeroBalances /\ eff[p].led = 0
              \/ eff[p].bal = TransferEffect(req[p]) /\ eff[p].led = 1

\* A transfer was aborted after it had inserted its Transaction row (its id
\* is used up), and another transfer has committed since.
C26_Witness ==
    \E p, q \in Procs :
        /\ Aborted(p)
        /\ IsTransfer(q) /\ Succeeded(q)
        /\ Len(ledger) = 1
        /\ ledger[1].id = 2

----------------------------------------------------------------------------
\* The funds check.

\* The step in which handler p makes the funds check.
ChecksFunds(p) == IsTransfer(p) /\ pc[p] = "check" /\ pc'[p] # "check"

\* The step in which the atomic block of handler p's transfer commits.
CommitsTransfer(p) == IsTransfer(p) /\ pc[p] = "commit" /\ pc'[p] = "delay"

\* C27: the funds check is made while the transfer holds the locks of both
\* wallets, on the sender's committed balance of that moment: the transfer
\* goes on to its writes if and only if that balance is at least the amount,
\* and fails with insufficient funds otherwise; a transfer of the whole
\* balance goes on and its commit leaves the sender with 0.
C27_FundsCheckUnderLock ==
    [][\A p \in Procs :
          /\ ChecksFunds(p)
             => /\ p \in lock[req[p].user]
                /\ p \in lock[req[p].receiver_id]
                /\ wmap[p][req[p].user] = balance[req[p].user]
                /\ (balance[req[p].user] >= req[p].amount) <=> (pc'[p] = "commit")
                /\ (balance[req[p].user] < req[p].amount) <=> Insufficient(p)'
                /\ pc'[p] = "commit"
                   => pend'[p].bal[req[p].user] = balance[req[p].user] - req[p].amount
          /\ CommitsTransfer(p)
             => /\ balance'[req[p].user] = pend[p].bal[req[p].user]
                /\ balance'[req[p].user] = balance[req[p].user] - req[p].amount]_vars

\* A transfer of the sender's whole balance at that moment, which a deposit
\* had raised, has succeeded and left 0, and a later transfer of that sender
\* has failed.
C27_Witness ==
    \E p, q, d \in Procs :
        /\ IsTransfer(p) /\ Succeeded(p)
        /\ IsDeposit(d) /\ Succeeded(d) /\ req[d].user = req[p].user
        /\ req[p].amount = InitBalance(req[p].user) + req[d].amount
        /\ IsTransfer(q) /\ Insufficient(q) /\ req[q].user = req[p].user
        /\ balance[req[p].user] = 0

----------------------------------------------------------------------------
\* Mutual exclusion on a wallet row.

\* C28: at most one handler holds the lock of a wallet; only transfers and
\* deposits hold locks; and a step that changes the balance of a locked
\* wallet is the commit of the handler holding the lock: while a handler
\* holds the lock, from taking it to its commit or rollback, no other
\* handler changes that balance.
C28_RowMutualExclusion ==
    /\ [](\A u \in Users :
             /\ Cardinality(lock[u]) <= 1
             /\ \A p \in lock[u] : (IsTransfer(p) \/ IsDeposit(p)) /\ ~Done(p))
    /\ [][\A u \in Users : \A p \in lock[u] :
             /\ p \in lock'[u] => balance'[u] = balance[u] /\ pc'[p] # "done"
             /\ balance'[u] # balance[u]
                => /\ pc[p] \in {"commit", "dep_commit"}
                   /\ eff'[p].bal[u] - eff[p].bal[u] = balance'[u] - balance[u]
                   /\ \A q \in Procs \ {p} : eff'[q] = eff[q]]_vars

\* A deposit holds the lock of its wallet and has written its new balance,
\* not yet committed, while a transfer that has locked its other wallet waits
\* for that lock, and a third request also wants it.
C28_Witness ==
    \E d, p, q \in Procs :
        /\ IsDeposit(d) /\ pc[d] = "dep_commit" /\ lock[req[d].user] = {d}
        /\ IsTransfer(p) /\ pc[p] = "lock2" /\ Wanted(p) = {req[d].user}
        /\ q \notin {d, p} /\ req[d].user \in Wanted(q)

----------------------------------------------------------------------------
\* Lock contention.

\* The outcomes of a well-formed transfer to an existing receiver.
TransferOutcomes == {"ok", "insufficient"}

----------------------------------------------------------------------------
\* Deposits and transfers on one wallet.

\* The deposits into w that pass the validation of DepositView.post.
ValidDepositsTo(w) ==
    {p \in Procs : IsDeposit(p) /\ req[p].user = w /\ DepositValid(req[p])}

SuccessfulTo(w) ==
    {p \in Procs : IsTransfer(p) /\ req[p].receiver_id = w /\ Succeeded(p)}

\* The sum of the amounts, in thousandths, of the requests of the handlers S.
RECURSIVE SumThousandths(_)
SumThousandths(S) ==
    IF S = {} THEN 0
    ELSE LET p == CHOOSE x \in S : TRUE
         IN Thousandths(req[p]) + SumThousandths(S \ {p})

\* Every request that can change w's balance has been answered.
Settled(w) == \A p \in Procs : w \in Affects(req[p]) => Done(p)

\* C30: every valid deposit succeeds, and once the deposits into a wallet and
\* the transfers touching it are answered, its balance is the initial balance
\* plus the amounts deposited plus the amounts received minus the amounts
\* sent by successful transfers.
C30_NoLostUpdate ==
    /\ \A p \in Procs :
          (IsDeposit(p) /\ DepositValid(req[p]) /\ Done(p)) => Succeeded(p)
    /\ \A w \in Users :
          Settled(w)
          => 10 * balance[w] = 10 * InitBalance(w)
                               + SumThousandths(ValidDepositsTo(w))
                               + SumThousandths(SuccessfulTo(w))
                               - SumThousandths(SuccessfulFrom(w))

\* Two deposits into one wallet and a transfer touching it, all answered
\* with success.
DepositsInterleaved ==
    \E d, e, p \in Procs :
        /\ d # e
        /\ IsDeposit(d) /\ IsDeposit(e) /\ req[d].user = req[e].user
        /\ IsTransfer(p) /\ req[d].user \in Affects(req[p])
        /\ Succeeded(d) /\ Succeeded(e) /\ Succeeded(p)

----------------------------------------------------------------------------
\* Transfers rejected by a precondition.

PreconditionErrors == {"invalid", "self", "notfound"}

Rejected(p) == IsTransfer(p) /\ resp[p].status \in PreconditionErrors

\* C31: a transfer rejected for its amount, as a self-transfer or for an
\* unknown receiver has created no wallet, changed no balance, appended no
\* ledger entry and submitted no job, and holds no lock; it is rejected in
\* its first step, which requests no lock and writes nothing.
C31_RejectedChangesNothing ==
    /\ [](\A p \in Procs : Rejected(p) => eff[p] = NoEffect /\ HoldsNoLock(p))
    /\ [][\A p \in Procs :
             (Rejected(p)' /\ ~Rejected(p))
             => /\ pc[p] = "start"
                /\ UNCHANGED <<wallets, balance, ledger, next_id, lock, jobs, pend>>]_vars

\* A self-transfer of a user without wallet and a transfer to an unknown
\* receiver were rejected, and the user still has no wallet.
C31_Witness ==
    \E p, q \in Procs :
        /\ IsTransfer(p) /\ resp[p].status = "self"
        /\ req[p].user \notin wallets
        /\ IsTransfer(q) /\ resp[q].status = "notfound"

----------------------------------------------------------------------------
\* Repeated transfers.

\* Two handlers serve transfers with the same sender, receiver and amount.
SameTransfer(p, q) ==
    /\ p # q
    /\ IsTransfer(p) /\ IsTransfer(q)
    /\ req[p].user = req[q].user
    /\ req[p].receiver_id = req[q].receiver_id
    /\ req[p].amount = req[q].amount

\* C32: a transfer with the sender, receiver and amount of a transfer that
\* has already succeeded passes the funds check whenever the sender's balance
\* covers it; and when both have succeeded each has its own ledger entry and
\* each has debited the sender and credited the receiver.
C32_NotIdempotent ==
    /\ [](\A p, q \in Procs :
             (SameTransfer(p, q) /\ Succeeded(p) /\ Succeeded(q))
             => /\ resp[p].transaction_id # resp[q].transaction_id
                /\ Cardinality(EntriesWithId(resp[p].transaction_id)) = 1
                /\ Cardinality(EntriesWithId(resp[q].transaction_id)) = 1
                /\ eff[p].bal = TransferEffect(req[p]) /\ eff[p].led = 1
                /\ eff[q].bal = TransferEffect(req[q]) /\ eff[q].led = 1)
    /\ [][\A p, q \in Procs :
             (/\ SameTransfer(p, q) /\ Succeeded(p)
              /\ ChecksFunds(q)
              /\ balance[req[q].user] >= req[q].amount)
             => pc'[q] = "commit"]_vars

\* The same transfer was served twice, the second after the first had been
\* answered; both succeeded and the sender has paid twice.
C32_Witness ==
    \E p, q \in Procs :
        /\ SameTransfer(p, q) /\ Succeeded(p) /\ Succeeded(q)
        /\ resp[p].transaction_id < resp[q].transaction_id
        /\ resp[q].balance = resp[p].balance - req[q].amount
        /\ Cardinality({i \in 1..Len(ledger) : ledger[i].sender = req[p].user}) = 2
        /\ balance[req[p].user] = InitBalance(req[p].user) - 2 * req[p].amount

----------------------------------------------------------------------------
\* The ledger and the balances.

\* The sum of the amounts of the ledger entries at the positions I.
RECURSIVE SumLedger(_)
SumLedger(I) ==
    IF I = {} THEN 0
    ELSE LET i == CHOOSE x \in I : TRUE
         IN ledger[i].amount + SumLedger(I \ {i})

ReceivedBy(w) == {i \in 1..Len(ledger) : ledger[i].receiver = w}
SentFrom(w) == {i \in 1..Len(ledger) : ledger[i].sender = w}

SuccessfulDepositsTo(w) ==
    {p \in Procs : IsDeposit(p) /\ req[p].user = w /\ Succeeded(p)}

\* C33: in every state the committed balance of every wallet is its initial
\* balance plus its successful deposits plus the amounts of the ledger
\* entries it received minus the amounts of the ledger entries it sent.
C33_LedgerAgreesWithBalances ==
    \A w \in Users :
        10 * balance[w] = 10 * InitBalance(w)
                          + SumThousandths(SuccessfulDepositsTo(w))
                          + 10 * SumLedger(ReceivedBy(w))
                          - 10 * SumLedger(SentFrom(w))

\* A wallet has had a deposit, has sent and has received.
LedgerAndDeposits ==
    \E w \in Users :
        /\ SuccessfulDepositsTo(w) # {}
        /\ ReceivedBy(w) # {}
        /\ SentFrom(w) # {}

----------------------------------------------------------------------------
\* Conservation of funds.

RECURSIVE SumBalances(_)
SumBalances(S) ==
    IF S = {} THEN 0
    ELSE LET u == CHOOSE x \in S : TRUE
         IN balance[u] + SumBalances(S \ {u})

RECURSIVE SumInitBalances(_)
SumInitBalances(S) ==
    IF S = {} THEN 0
    ELSE LET u == CHOOSE x \in S : TRUE
         IN InitBalance(u) + SumInitBalances(S \ {u})

SuccessfulDeposits == {p \in Procs : IsDeposit(p) /\ Succeeded(p)}

\* C34: in every state the sum of the committed balances is the initial sum
\* plus the amounts of the successful deposits; and a step of a transfer or
\* of a balance query, wallet creation included, leaves the sum unchanged.
C34_Conservation ==
    /\ [](10 * SumBalances(Users)
          = 10 * SumInitBalances(Users) + SumThousandths(SuccessfulDeposits))
    /\ [][\A p \in Procs :
             ((IsTransfer(p) \/ IsBalance(p)) /\ pc'[p] # pc[p])
             => SumBalances(Users)' = SumBalances(Users)]_vars

\* Wallets were created, a transfer succeeded, another failed, and a deposit
\* succeeded.
FundsMoved ==
    /\ wallets = Users
    /\ \E p, q, d \in Procs :
          /\ IsTransfer(p) /\ Succeeded(p)
          /\ IsTransfer(q) /\ Insufficient(q)
          /\ IsDeposit(d) /\ Succeeded(d)

----------------------------------------------------------------------------
\* The balance in the response of a transfer.

\* The step in which handler p answers its transfer with success.
AnswersTransfer(p) == IsTransfer(p) /\ pc[p] = "delay" /\ Succeeded(p)'

\* C35: the sender_balance in the response of a successful transfer is the
\* sender's balance as that transfer committed it: the balance it read under
\* the lock minus the amount.
C35_ResponseBalanceOwn ==
    [][\A p \in Procs :
          AnswersTransfer(p) => resp'[p].balance = wmap[p][req[p].user]]_vars

\* What does hold: the sender_balance is the sender's committed balance at
\* the moment of the response.
ResponseBalanceCurrent ==
    [][\A p \in Procs :
          AnswersTransfer(p) => resp'[p].balance = balance[req[p].user]]_vars

----------------------------------------------------------------------------
\* The order of the errors of a transfer.

\* The error a transfer request must get, by the order of the rules: the
\* amount, then the self-transfer, then the receiver; "none" when it breaks
\* none of the three.
FirstBrokenRule(r) ==
    IF ~ValidAmount(r) THEN "invalid"
    ELSE IF r.receiver_id = r.user THEN "self"
    ELSE IF r.receiver_id \notin Users THEN "notfound"
    ELSE "none"

\* C36: an answered transfer that breaks one of the rules on the amount, the
\* self-transfer and the receiver is answered with the error of the first
\* rule it breaks, in that order, and with insufficient funds only when it
\* breaks none of them.
C36_ErrorPrecedence ==
    \A p \in Procs :
        (IsTransfer(p) /\ Done(p))
        => /\ FirstBrokenRule(req[p]) # "none"
              => resp[p].status = FirstBrokenRule(req[p])
           /\ Insufficient(p) => FirstBrokenRule(req[p]) = "none"

\* A self-transfer with a malformed amount was answered invalid, and a
\* transfer of more than the sender has to an unknown receiver was answered
\* receiver-not-found.
C36_Witness ==
    \E p, q \in Procs :
        /\ IsTransfer(p) /\ req[p].receiver_id = req[p].user
        /\ ~ValidAmount(req[p]) /\ resp[p].status = "invalid"
        /\ IsTransfer(q) /\ req[q].receiver_id = UnknownUser
        /\ ValidAmount(req[q]) /\ req[q].amount > balance[req[q].user]
        /\ resp[q].status = "notfound"

----------------------------------------------------------------------------
\* The entries of the ledger.

\* A Transaction row a transfer may write.
WellFormedEntry(e) == e.amount > 0 /\ e.sender # e.receiver

\* C37: every ledger entry, committed or written and not yet committed, has
\* an amount above 0 and a sender different from its receiver.
C37_EntriesWellFormed ==
    /\ \A i \in 1..Len(ledger) : WellFormedEntry(ledger[i])
    /\ \A p \in Procs : \A i \in 1..Len(pend[p].led) : WellFormedEntry(pend[p].led[i])

\* A transfer has its entry in the ledger, and a self-transfer or a transfer
\* of an amount of 0 or less was answered with an error.
C37_Witness ==
    \E p, q \in Procs :
        /\ IsTransfer(p) /\ Succeeded(p)
        /\ Cardinality(EntriesWithId(resp[p].transaction_id)) = 1
        /\ IsTransfer(q) /\ Done(q) /\ ~Succeeded(q)
        /\ \/ req[q].receiver_id = req[q].user
           \/ Thousandths(req[q]) <= 0


====
